---- MODULE Spec2Model ----
(***************************************************************************)
(* Model of GuestDiana (src/tmt/steps/provision/diana.py): one guest       *)
(* handle driving a libvirt hypervisor through virsh / virt-install.       *)
(*                                                                         *)
(* Every external invocation (virsh, virt-install, ssh-keygen, file        *)
(* write, time.sleep, the generic SSH-guest collaborator) is one step of   *)
(* the model and is appended to `log`.  The hypervisor is the environment: *)
(* `dom` is the state of the domain named by the handle's current          *)
(* instance_name, and it may change between any two steps.                 *)
(***************************************************************************)
EXTENDS Naturals, Sequences, FiniteSets

\* ------------------------------------------------------------------ bounds
\* Longest arbitrary text the address query may print (in characters).
MaxOut == 1

\* --------------------------------------------------------- program constants
AddrAttempts == 10
AddrRetryDelay == 1
ShutoffPolls == 10
ShutoffPollDelay == 1
SshPort == 22

\* ------------------------------------------------------------ Optional[...]
None == <<>>
Some(v) == <<v>>
IsNone(x) == x = <<>>
Val(x) == x[1]

\* --------------------------------------------------------------- text model
\* Text is a sequence of one-character strings.
NL == "\n"
SP == " "
SLASH == "/"
Chars == {"1", SLASH, SP, NL}

RECURSIVE SplitLinesAcc(_, _, _)
SplitLinesAcc(s, cur, acc) ==
    IF s = <<>>
    THEN IF cur = <<>> THEN acc ELSE Append(acc, cur)
    ELSE IF Head(s) = NL
         THEN SplitLinesAcc(Tail(s), <<>>, Append(acc, cur))
         ELSE SplitLinesAcc(Tail(s), Append(cur, Head(s)), acc)

\* str.splitlines(): lines without their terminators; a final terminator
\* opens no extra empty line.
splitlines(s) == SplitLinesAcc(s, <<>>, <<>>)

RECURSIVE SplitWsAcc(_, _, _)
SplitWsAcc(s, cur, acc) ==
    IF s = <<>>
    THEN IF cur = <<>> THEN acc ELSE Append(acc, cur)
    ELSE IF Head(s) = SP
         THEN SplitWsAcc(Tail(s), <<>>, IF cur = <<>> THEN acc ELSE Append(acc, cur))
         ELSE SplitWsAcc(Tail(s), Append(cur, Head(s)), acc)

\* str.split(): fields separated by runs of whitespace, no empty fields.
split(s) == SplitWsAcc(s, <<>>, <<>>)

RECURSIVE UpToSlash(_)
\* str.split('/')[0]: the text before the first '/'.
UpToSlash(s) ==
    IF s = <<>> \/ Head(s) = SLASH THEN <<>> ELSE <<Head(s)>> \o UpToSlash(Tail(s))

\* ....stdout.splitlines()[-2].split()[-1].split('/')[0]
\* A negative index past the start of a list raises IndexError.
ParseAddrMissingPrefixStrip(out) ==
    LET lines == splitlines(out) IN
    IF Len(lines) < 2 THEN [err |-> "IndexError", val |-> <<>>]
    ELSE LET fields == split(lines[Len(lines) - 1]) IN
         IF Len(fields) < 1 THEN [err |-> "IndexError", val |-> <<>>]
         ELSE [err |-> "none", val |-> fields[Len(fields)]]

ParseAddr(out) ==
    LET lines == splitlines(out) IN
    IF Len(lines) < 2 THEN [err |-> "IndexError", val |-> <<>>]
    ELSE LET fields == split(lines[Len(lines) - 1]) IN
         IF Len(fields) < 1 THEN [err |-> "IndexError", val |-> <<>>]
         ELSE [err |-> "none", val |-> UpToSlash(fields[Len(fields)])]

\* ------------------------------------------------------- hypervisor's side
\* What `virsh domifaddr` prints for one lease: a header, a rule, the row
\* "name mac proto addr/prefix", and virsh's closing blank line.
Addrs == {<<"1", "9">>, <<"7">>}
Prefixes == {<<"2", "4">>}
Table(addr, prefix) ==
    <<"N", SP, "A", NL, "-", "-", NL, SP, "v", SP, "m", SP, "4", SP>>
        \o addr \o <<SLASH>> \o prefix \o <<NL, NL>>
\* The same table with no lease yet: header, rule, blank line.
EmptyTable == <<"N", SP, "A", NL, "-", "-", NL, NL>>
Tables == {Table(a, p) : a \in Addrs, p \in Prefixes}
Texts == UNION {[1..k -> Chars] : k \in 0..MaxOut}
Outputs == Texts \cup Tables \cup {EmptyTable}

DomStates == {"absent", "shut off", "running", "paused"}
Names == {"n1", "n2"}
NoName == "None"

\* self.hardware as seen by one call: absent (None) or a requirement.
HardwareValues == {None, Some("memory: 2 GB")}
\* What looking up self._instance can give: GuestDiana neither declares nor
\* assigns it, so it is missing unless a base class supplies a default.
InstanceAttr == {"missing", "None"}
Unbound == "unbound"

VARIABLES
    instance_name,  \* self.instance_name
    guest,          \* self.guest, the network address (Optional)
    port,           \* self.port (Optional)
    key,            \* self.key, list of key files
    dom,            \* hypervisor: state of the domain called instance_name
    op,             \* the operation being executed
    pc,             \* position inside it
    i,              \* loop index of the polling loops
    hardware,       \* self.hardware during this call
    log,            \* external invocations of this call, in order
    slept,          \* seconds spent in time.sleep during this call
    lastOut,        \* stdout of the last successful address query
    ret,            \* value returned by the call (Optional)
    err,            \* exception escaping the call, or "none"
    prev,           \* summary of the previous call on this handle
    reachable       \* the reconnect probe has succeeded since start began

handle == <<instance_name, guest, port, key>>
frame == <<op, pc, i, hardware, log, slept, lastOut, ret, err>>
vars == <<instance_name, guest, port, key, dom, op, pc, i, hardware, log,
          slept, lastOut, ret, err, prev, reachable>>

NoPrev == [op |-> "none", ok |-> TRUE, installs |-> 0, installed |-> FALSE]

Init ==
    /\ instance_name = NoName
    /\ guest = None
    /\ port = None
    /\ key = <<>>
    /\ dom = "absent"
    /\ op = "none"
    /\ pc = "idle"
    /\ i = 0
    /\ hardware = None
    /\ log = <<>>
    /\ slept = 0
    /\ lastOut = None
    /\ ret = None
    /\ err = "none"
    /\ prev = NoPrev
    /\ reachable = FALSE

\* ------------------------------------------------------------------ helpers
Res(ok) == IF ok THEN "ok" ELSE "failed"
Logged(entry) == log' = Append(log, entry)
Fail(kind) == pc' = "done" /\ err' = kind /\ ret' = None
Finish(r) == pc' = "done" /\ err' = "none" /\ ret' = r
Goto(p) == pc' = p /\ UNCHANGED <<err, ret>>

\* The positions that lie inside start's `try: self._install()`.
InstallPcs == {"install", "ks_open", "keygen", "pubkey", "virt_install"}

\* start without its try/except around _install.
EscapesUnwrapped(kind) == kind

\* start wraps a CalledProcessError leaving _install into ProvisionError;
\* nothing else is caught anywhere.
Escapes(kind) ==
    IF op = "start" /\ pc \in InstallPcs /\ kind = "CalledProcessError"
    THEN "ProvisionError"
    ELSE kind
Raise(kind) == Fail(Escapes(kind))

\* `except subprocess.CalledProcessError as e:` binds e for the clause only:
\* at the end of the clause Python unbinds it.
ExceptExit(x) == Unbound
\* `raise e`: an unbound local raises UnboundLocalError instead.
RaiseLocal(x) == IF x = Unbound THEN "UnboundLocalError" ELSE x

\* GuestSsh.is_ready, the generic SSH guest's predicate: an address is set.
SuperIsReady(g) == ~IsNone(g)
\* is_ready as an override: the generic predicate alone.
IsReadyValueIgnoresState(state, g) == SuperIsReady(g)

\* is_ready
IsReadyValue(state, g) == IF state # "running" THEN FALSE ELSE SuperIsReady(g)

\* The invocations that act on the domain or the guest (not the queries,
\* the sleeps, the key and answer-file handling or the probe).
EffectCmds == {"virt-install", "start", "shutdown", "destroy", "undefine", "super.stop"}
IsEffect(x) == x[1] \in EffectCmds
Effects(l) == SelectSeq(l, IsEffect)
Count(l, cmd) == Cardinality({k \in 1..Len(l) : l[k][1] = cmd})
Has(l, entry) == \E k \in 1..Len(l) : l[k] = entry

\* What is remembered of a finished call: which operation it was (of those
\* that change the domain), whether it returned normally, how many times it
\* invoked the installer, and whether the installer succeeded.
TrackedOps == {"_install", "start", "stop", "remove"}
Summary(o, er, l) ==
    [op |-> IF o \in TrackedOps THEN o ELSE "other",
     ok |-> IF o \in TrackedOps THEN er = "none" ELSE TRUE,
     installs |-> Count(l, "virt-install"),
     installed |-> Has(l, <<"virt-install", "ok">>)]

\* ------------------------------------------------------------ guest_state
\* virsh run without check=True: a non-zero exit is not noticed.
UndefinedUnnoticed(state) == FALSE

\* guest_state: `virsh domstate` exits non-zero for a name without a domain
\* and, run with check=True, raises CalledProcessError.
Undefined(state) == state = "absent"

\* ------------------------------------------------------------ the hypervisor
\* Concurrent external management and the domain's own transitions: the
\* domain's state may change between any two steps of the controller.
HypervisorChange ==
    /\ instance_name # NoName
    /\ pc # "done"
    /\ \E s \in DomStates \ {dom} : dom' = s
    /\ UNCHANGED <<handle, frame, prev, reachable>>

\* ------------------------------------------------------------------- start
\* start(), up to the call of _install: a new identity from _tmt_name(),
\* then the dry-run exit.  `d` is the state of the domain of that name.
start_begin ==
    /\ pc = "idle"
    /\ \E n \in Names, d \in DomStates, dry \in BOOLEAN, h \in HardwareValues :
        /\ instance_name' = n
        /\ dom' = IF n = instance_name THEN dom ELSE d
        /\ IF dry
           THEN Finish(None) /\ hardware' = None
           ELSE Goto("install") /\ hardware' = h
    /\ op' = "start"
    /\ reachable' = FALSE
    /\ UNCHANGED <<guest, port, key, i, log, slept, lastOut, prev>>

\* A direct call of _install().
install_call ==
    /\ pc = "idle"
    /\ op' = "_install"
    /\ \E h \in HardwareValues : hardware' = h
    /\ Goto("install")
    /\ UNCHANGED <<handle, dom, i, log, slept, lastOut, prev, reachable>>

\* _install's frame ends: inside start its locals go out of scope at once,
\* for a direct caller when the call is over.
PopInstall == hardware' = IF op = "start" THEN None ELSE hardware

\* _install returns: into start, or to the caller.
InstallReturns ==
    /\ PopInstall
    /\ IF op = "start" THEN Goto("st_state") ELSE Finish(None)

\* An exception leaves _install.
InstallRaises(kind) == PopInstall /\ Raise(kind)

\* `self.guest_state; return` with the `return` left out.
AlreadyInstalledNoReturn == Goto("ks_open") /\ UNCHANGED hardware

\* `try: self.guest_state; return`: the domain exists, nothing to install.
AlreadyInstalled == InstallReturns

\* _install(): the idempotence check `self.guest_state`.  virsh is run with
\* check=True, so an undefined domain raises CalledProcessError, which is
\* swallowed here; a None name makes subprocess raise TypeError.
install_domstate ==
    /\ pc = "install"
    /\ IF instance_name = NoName
       THEN InstallRaises("TypeError") /\ UNCHANGED log
       ELSE IF Undefined(dom)
            THEN Logged(<<"domstate", "failed">>) /\ Goto("ks_open") /\ UNCHANGED hardware
            ELSE Logged(<<"domstate", dom>>) /\ AlreadyInstalled
    /\ UNCHANGED <<handle, dom, op, i, slept, lastOut, prev, reachable>>

\* open(self.workdir / 'ks.cfg', 'w')
install_open ==
    /\ pc = "ks_open"
    /\ Logged(<<"open ks.cfg", "ok">>)
    /\ Goto("keygen")
    /\ UNCHANGED <<handle, dom, op, i, hardware, slept, lastOut, prev, reachable>>

\* virt-install, run with check=True; with --noreboot the new domain is left
\* shut off.
install_run ==
    /\ pc = "virt_install"
    /\ \E ok \in BOOLEAN :
        /\ ok => dom = "absent"
        /\ Logged(<<"virt-install", Res(ok)>>)
        /\ IF ok
           THEN dom' = "shut off" /\ InstallReturns
           ELSE UNCHANGED dom /\ InstallRaises("CalledProcessError")
    /\ UNCHANGED <<handle, op, i, slept, lastOut, prev, reachable>>

\* ------------------------------------------------------------- ssh_pubkey
\* A direct read of the ssh_pubkey property.
ssh_pubkey_call ==
    /\ pc = "idle"
    /\ op' = "ssh_pubkey"
    /\ Goto("keygen")
    /\ UNCHANGED <<handle, dom, i, hardware, log, slept, lastOut, prev, reachable>>

\* _generate_ssh_key without its guard.
HasKeyNever(k) == FALSE

\* `if self.key:`
HasKey(k) == k # <<>>

\* _generate_ssh_key(): nothing when the handle has a key; otherwise the key
\* path is stored first and ssh-keygen is run with check=True.
generate_ssh_key ==
    /\ pc = "keygen"
    /\ IF HasKey(key)
       THEN Goto("pubkey") /\ UNCHANGED <<key, log, hardware>>
       ELSE /\ key' = <<"ssh_key">>
            /\ \E ok \in BOOLEAN :
                /\ Logged(<<"ssh-keygen", Res(ok)>>)
                /\ IF ok
                   THEN Goto("pubkey") /\ UNCHANGED hardware
                   ELSE InstallRaises("CalledProcessError")
    /\ UNCHANGED <<instance_name, guest, port, dom, op, i, slept, lastOut, prev,
                   reachable>>

\* ssh_pubkey: `ssh-keygen -y`, run without check.  Inside _install the
\* rendered kickstart is then written and flushed, the command line is built
\* and `assert not hardware` is evaluated.
ssh_pubkey_derive ==
    /\ pc = "pubkey"
    /\ IF op = "ssh_pubkey"
       THEN /\ Logged(<<"ssh-keygen -y", "ok">>)
            /\ Finish(Some("pubkey"))
            /\ UNCHANGED hardware
       ELSE /\ log' = log \o << <<"ssh-keygen -y", "ok">>, <<"write ks.cfg", "ok">> >>
            /\ IF ~IsNone(hardware)
               THEN InstallRaises("AssertionError")
               ELSE Goto("virt_install") /\ UNCHANGED hardware
    /\ UNCHANGED <<handle, dom, op, i, slept, lastOut, prev, reachable>>

\* ------------------------------------------------------- start, continued
\* The hypervisor start command issued whatever the state.
StartNeededAlways(state) == TRUE

\* `if self.guest_state != "running":`
StartNeeded(state) == state # "running"

\* start(): the state query after _install and the branch on it.
start_state ==
    /\ pc = "st_state"
    /\ IF Undefined(dom)
       THEN Logged(<<"domstate", "failed">>) /\ Raise("CalledProcessError")
       ELSE /\ Logged(<<"domstate", dom>>)
            /\ IF StartNeeded(dom) THEN Goto("st_start") ELSE Goto("gi_query")
    /\ i' = 0
    /\ UNCHANGED <<handle, dom, op, hardware, slept, lastOut, prev, reachable>>

\* self._virsh('start', self.instance_name)
start_virsh ==
    /\ pc = "st_start"
    /\ \E ok \in BOOLEAN :
        /\ ok => dom = "shut off"
        /\ Logged(<<"start", Res(ok)>>)
        /\ IF ok
           THEN dom' = "running" /\ Goto("gi_query")
           ELSE UNCHANGED dom /\ Raise("CalledProcessError")
    /\ UNCHANGED <<handle, op, i, hardware, slept, lastOut, prev, reachable>>

\* ------------------------------------------------------------ get_guest_ip
\* A direct call of get_guest_ip().
get_guest_ip_call ==
    /\ pc = "idle"
    /\ op' = "get_guest_ip"
    /\ i' = 0
    /\ Goto("gi_query")
    /\ UNCHANGED <<handle, dom, hardware, log, slept, lastOut, prev, reachable>>

\* What get_guest_ip does with the value it returns: in start it becomes the
\* handle's address and the port is set; a direct caller receives it.
Resolved(val) ==
    IF op = "start"
    THEN guest' = Some(val) /\ port' = Some(SshPort) /\ Goto("st_reconnect")
    ELSE Finish(Some(val)) /\ UNCHANGED <<guest, port>>

\* The handler without its time.sleep(1).
AddrNoBackoff ==
    /\ log' = Append(log, <<"domifaddr", "failed">>)
    /\ slept' = slept

\* `except subprocess.CalledProcessError as e: time.sleep(1)`
AddrBackoff ==
    /\ log' = log \o << <<"domifaddr", "failed">>, <<"sleep", "ok">> >>
    /\ slept' = slept + AddrRetryDelay

\* One iteration of `for i in range(10)`: virsh domifaddr (check=True) and
\* the parse of its output.  Only CalledProcessError is caught: the handler
\* sleeps, and once the loop is exhausted `raise e` follows.
gi_query ==
    /\ pc = "gi_query"
    /\ IF instance_name = NoName
       THEN Raise("TypeError") /\ UNCHANGED <<guest, port, log, i, slept, lastOut>>
       ELSE \/ /\ AddrBackoff
               /\ i' = i + 1
               /\ IF i + 1 < AddrAttempts
                  THEN Goto("gi_query")
                  ELSE Raise(RaiseLocal(ExceptExit("CalledProcessError")))
               /\ UNCHANGED <<guest, port, lastOut>>
            \/ /\ dom = "running"
               /\ \E out \in Outputs :
                   /\ lastOut' = Some(out)
                   /\ LET r == ParseAddr(out) IN
                      IF r.err # "none"
                      THEN Raise(r.err) /\ UNCHANGED <<guest, port>>
                      ELSE Resolved(r.val)
               /\ Logged(<<"domifaddr", "ok">>)
               /\ UNCHANGED <<i, slept>>
    /\ UNCHANGED <<instance_name, key, dom, op, hardware, prev, reachable>>

\* start cleaning up after a reconnect timeout: the domain is destroyed and
\* the address and port are forgotten.
start_reconnect_cleanup ==
    /\ pc = "st_reconnect"
    /\ \E ok \in BOOLEAN :
        /\ reachable' = ok
        /\ IF ok
           THEN /\ Logged(<<"reconnect", "ok">>)
                /\ Finish(None)
                /\ UNCHANGED <<guest, port, dom>>
           ELSE /\ log' = log \o << <<"reconnect", "failed">>, <<"destroy", "ok">> >>
                /\ Raise("ProvisionError")
                /\ guest' = None /\ port' = None /\ dom' = "shut off"
    /\ UNCHANGED <<instance_name, key, op, i, hardware, slept, lastOut, prev>>

\* self.reconnect(timeout=DEFAULT_CONNECT_TIMEOUT * time_coeff, tick=1)
start_reconnect ==
    /\ pc = "st_reconnect"
    /\ \E ok \in BOOLEAN :
        /\ Logged(<<"reconnect", Res(ok)>>)
        /\ reachable' = ok
        /\ IF ok THEN Finish(None) ELSE Raise("ProvisionError")
    /\ UNCHANGED <<handle, dom, op, i, hardware, slept, lastOut, prev>>

\* -------------------------------------------------------------------- stop
\* stop(): super().stop() first.
stop_super ==
    /\ pc = "idle"
    /\ op' = "stop"
    /\ Logged(<<"super.stop", "ok">>)
    /\ Goto("sp_shutdown")
    /\ UNCHANGED <<handle, dom, i, hardware, slept, lastOut, prev, reachable>>

\* self._virsh('shutdown', self.instance_name): a request, the guest powers
\* off later on its own.
stop_shutdown ==
    /\ pc = "sp_shutdown"
    /\ IF instance_name = NoName
       THEN Raise("TypeError") /\ UNCHANGED log
       ELSE \E ok \in BOOLEAN :
            /\ ok => dom = "running"
            /\ Logged(<<"shutdown", Res(ok)>>)
            /\ IF ok THEN Finish(None) ELSE Raise("CalledProcessError")
    /\ UNCHANGED <<handle, dom, op, i, hardware, slept, lastOut, prev, reachable>>

\* ------------------------------------------------------------------ remove
\* What a poll of the shut-off loop saw, as far as the loop is concerned.
Seen(state) == IF state = "shut off" THEN "shut off" ELSE "active"

\* The comparison of remove() turned around.
RemoveNeedsDestroyInverted(state) == state = "shut off"

\* `if self.guest_state != "shut off":`
RemoveNeedsDestroy(state) == state # "shut off"

\* remove(): the first state query and the branch on it.
remove_state ==
    /\ pc = "idle"
    /\ op' = "remove"
    /\ IF instance_name = NoName
       THEN Raise("TypeError") /\ UNCHANGED log
       ELSE IF Undefined(dom)
            THEN Logged(<<"domstate", "failed">>) /\ Raise("CalledProcessError")
            ELSE /\ Logged(<<"domstate", dom>>)
                 /\ IF RemoveNeedsDestroy(dom) THEN Goto("rm_destroy") ELSE Goto("rm_undefine")
    /\ UNCHANGED <<handle, dom, i, hardware, slept, lastOut, prev, reachable>>

\* self._virsh('destroy', self.instance_name)
remove_destroy ==
    /\ pc = "rm_destroy"
    /\ \E ok \in BOOLEAN :
        /\ ok => dom \in {"running", "paused"}
        /\ Logged(<<"destroy", Res(ok)>>)
        /\ IF ok
           THEN dom' = "shut off" /\ Goto("rm_poll")
           ELSE UNCHANGED dom /\ Raise("CalledProcessError")
    /\ i' = 0
    /\ UNCHANGED <<handle, op, hardware, slept, lastOut, prev, reachable>>

\* Giving up with an error when the domain never shut off.
PollsExhaustedGiveUp == Raise("ProvisionError")

\* The loop ends without a break: control falls through to undefine.
PollsExhausted == Goto("rm_undefine")

\* The loop without its break.
PollNeverBreaks(state) == FALSE

\* `if self.guest_state == "shut off": break`
PollBreaks(state) == state = "shut off"

\* One iteration of the confirmation loop: query, break on "shut off",
\* otherwise time.sleep(1).
remove_poll ==
    /\ pc = "rm_poll"
    /\ IF Undefined(dom)
       THEN /\ Logged(<<"poll", "failed">>)
            /\ Raise("CalledProcessError")
            /\ UNCHANGED <<i, slept>>
       ELSE IF PollBreaks(dom)
            THEN /\ Logged(<<"poll", Seen(dom)>>)
                 /\ Goto("rm_undefine")
                 /\ UNCHANGED <<i, slept>>
            ELSE /\ log' = log \o << <<"poll", Seen(dom)>>, <<"sleep", "ok">> >>
                 /\ slept' = slept + ShutoffPollDelay
                 /\ i' = i + 1
                 /\ IF i + 1 < ShutoffPolls THEN Goto("rm_poll") ELSE PollsExhausted
    /\ UNCHANGED <<handle, dom, op, hardware, lastOut, prev, reachable>>

\* self._virsh('undefine', '--remove-all-storage', '--nvram', '--tpm', name)
remove_undefine ==
    /\ pc = "rm_undefine"
    /\ \E ok \in BOOLEAN :
        /\ ok => dom # "absent"
        /\ Logged(<<"undefine", Res(ok)>>)
        /\ IF ok
           THEN dom' = "absent" /\ Finish(None)
           ELSE UNCHANGED dom /\ Raise("CalledProcessError")
    /\ UNCHANGED <<handle, op, i, hardware, slept, lastOut, prev, reachable>>

\* ------------------------------------------------------------------ reboot
Truthy(attr) == attr \notin {"missing", "None"}

\* reboot(): with a command, the generic SSH-guest reboot; without one, the
\* check of self._instance and then reconnect.
reboot ==
    /\ pc = "idle"
    /\ op' = "reboot"
    /\ \E command \in BOOLEAN, inst \in InstanceAttr, ok \in BOOLEAN :
        IF command
        THEN Logged(<<"super.reboot", Res(ok)>>) /\ Finish(Some(ok))
        ELSE IF inst = "missing"
             THEN Raise("AttributeError") /\ UNCHANGED log
             ELSE IF ~Truthy(inst)
                  THEN Raise("ProvisionError") /\ UNCHANGED log
                  ELSE Logged(<<"reconnect", Res(ok)>>) /\ Finish(Some(ok))
    /\ UNCHANGED <<handle, dom, i, hardware, slept, lastOut, prev, reachable>>

\* ---------------------------------------------------------------- is_ready
\* is_ready: a fresh guest_state; the generic predicate is evaluated only
\* when the state is "running".
is_ready ==
    /\ pc = "idle"
    /\ op' = "is_ready"
    /\ IF instance_name = NoName
       THEN Raise("TypeError") /\ UNCHANGED log
       ELSE IF Undefined(dom)
            THEN Logged(<<"domstate", "failed">>) /\ Raise("CalledProcessError")
            ELSE /\ IF dom # "running"
                    THEN Logged(<<"domstate", dom>>)
                    ELSE log' = log \o << <<"domstate", dom>>,
                                          <<"super.is_ready", Res(SuperIsReady(guest))>> >>
                 /\ Finish(Some(IsReadyValue(dom, guest)))
    /\ UNCHANGED <<handle, dom, i, hardware, slept, lastOut, prev, reachable>>

\* ------------------------------------------------------------------ return
\* The call returns (or its exception reaches the caller).
Return ==
    /\ pc = "done"
    /\ prev' = Summary(op, err, log)
    /\ op' = "none"
    /\ pc' = "idle"
    /\ i' = 0
    /\ hardware' = None
    /\ log' = <<>>
    /\ slept' = 0
    /\ lastOut' = None
    /\ ret' = None
    /\ err' = "none"
    /\ UNCHANGED <<handle, dom, reachable>>

Next ==
    \/ HypervisorChange
    \/ start_begin
    \/ install_call
    \/ install_domstate
    \/ install_open
    \/ install_run
    \/ ssh_pubkey_call
    \/ generate_ssh_key
    \/ ssh_pubkey_derive
    \/ start_state
    \/ start_virsh
    \/ get_guest_ip_call
    \/ gi_query
    \/ start_reconnect
    \/ stop_super
    \/ stop_shutdown
    \/ remove_state
    \/ remove_destroy
    \/ remove_poll
    \/ remove_undefine
    \/ reboot
    \/ is_ready
    \/ Return

Spec == Init /\ [][Next]_vars

\* ================================================================== claims
Last(l) == l[Len(l)]
Range(f) == {f[k] : k \in 1..Len(f)}
IsAddrEntry(x) == x[1] \in {"domifaddr", "sleep"}
\* The part of the log that get_guest_ip wrote.
AddrLog == SelectSeq(log, IsAddrEntry)
\* n failed address queries, each followed by a sleep.
FailedRounds(n) ==
    [k \in 1..(2 * n) |-> IF k % 2 = 1 THEN <<"domifaddr", "failed">> ELSE <<"sleep", "ok">>]
\* n polls that saw the domain still active, each followed by a sleep.
ActiveRounds(n) ==
    [k \in 1..(2 * n) |-> IF k % 2 = 1 THEN <<"poll", "active">> ELSE <<"sleep", "ok">>]

\* --------------------------------------------------------------------- C1
\* The state query of this _install call succeeded: the domain exists.
DomainReported == log # <<>> /\ log[1][1] = "domstate" /\ log[1][2] # "failed"
\* A second _install call, right after one that invoked the installer, is
\* over.
SecondInstallOver ==
    op = "_install" /\ pc = "done" /\ prev.op = "_install" /\ prev.installs = 1

\* C1: when _install is called twice in a row and the domain-state query of
\* the second call succeeds, the second call returns without invoking the
\* installer (its only external invocation is that query), so the two calls
\* make exactly one installer invocation in total; no call makes more than
\* one.
C1_InstallOnce ==
    /\ Count(log, "virt-install") <= 1
    /\ (SecondInstallOver /\ DomainReported) =>
          /\ err = "none"
          /\ Len(log) = 1
          /\ prev.installs + Count(log, "virt-install") = 1

C1_Witness == SecondInstallOver /\ DomainReported

\* --------------------------------------------------------------------- C2
RemoveOver == op = "remove" /\ pc = "done"
\* destroy was issued and no later poll failed or saw "shut off".
NeverShutOff ==
    /\ Has(log, <<"destroy", "ok">>)
    /\ ~Has(log, <<"poll", "failed">>)
    /\ ~Has(log, <<"poll", "shut off">>)

\* C2: a remove that returns has issued undefine exactly once, as its last
\* hypervisor command; and when the hypervisor never reports "shut off"
\* after destroy, remove has polled the state 10 times, slept 1 second
\* after each poll, and then issued undefine exactly once, last.
C2_UndefineAlways ==
    /\ (RemoveOver /\ err = "none") =>
          Count(log, "undefine") = 1 /\ Last(log) = <<"undefine", "ok">>
    /\ (RemoveOver /\ NeverShutOff) =>
          /\ Count(log, "undefine") = 1
          /\ Count(log, "destroy") = 1
          /\ Count(log, "poll") = 10
          /\ slept = 10
          /\ Len(log) = 23
          /\ SubSeq(log, 2, 22) = << <<"destroy", "ok">> >> \o ActiveRounds(10)
          /\ Last(log)[1] = "undefine"

C2_Witness == RemoveOver /\ NeverShutOff /\ err = "none"

\* --------------------------------------------------------------------- C3
\* get_guest_ip has returned a value (to its caller, or into start).
AddrResolved ==
    /\ op \in {"get_guest_ip", "start"}
    /\ pc \in {"st_reconnect", "done"}
    /\ ~IsNone(lastOut)
    /\ IF op = "start" THEN Has(log, <<"domifaddr", "ok">>) /\ ~IsNone(guest)
                       ELSE err = "none"
\* The value it returned.
AddrReturned == IF op = "start" THEN Val(guest) ELSE Val(ret)
AddrQueries == Count(log, "domifaddr")

\* C3: when get_guest_ip returns, the k-th address query (1 <= k <= 10) was
\* the first to succeed, the k-1 queries before it failed and each was
\* followed by a 1-second sleep, and the value returned is the address of
\* the row that k-th query printed.
C3_ResolveOnKth ==
    AddrResolved =>
        /\ AddrQueries >= 1 /\ AddrQueries <= 10
        /\ AddrLog = FailedRounds(AddrQueries - 1) \o << <<"domifaddr", "ok">> >>
        /\ slept = AddrQueries - 1
        /\ \A a \in Addrs, p \in Prefixes :
              Val(lastOut) = Table(a, p) => AddrReturned = a

C3_Witness ==
    /\ AddrResolved
    /\ AddrQueries = 10
    /\ \E a \in Addrs, p \in Prefixes : Val(lastOut) = Table(a, p)

\* --------------------------------------------------------------------- C4
\* get_guest_ip is over after 10 address queries that all failed.
AddrExhausted ==
    /\ op \in {"get_guest_ip", "start"}
    /\ pc = "done"
    /\ Count(log, "domifaddr") = 10
    /\ ~Has(log, <<"domifaddr", "ok">>)

\* C4: when all 10 address queries fail, get_guest_ip fails with the
\* failure of the last query (CalledProcessError) after exactly 10 queries.
C4_ReraisesLast ==
    /\ ~(pc = "gi_query" /\ i >= 10)
    /\ AddrExhausted => err = "CalledProcessError"

\* --------------------------------------------------------------------- C5
\* The line the address is taken from is no row "... addr/prefix".
NotAssignmentRow(line) ==
    LET fields == split(line) IN
    fields = <<>> \/ SLASH \notin Range(fields[Len(fields)])
\* Output without an address to parse: fewer than two lines, or a
\* last-but-one line that is no assignment row.
Malformed(out) ==
    LET lines == splitlines(out) IN
    Len(lines) < 2 \/ NotAssignmentRow(lines[Len(lines) - 1])

\* C5: an address query that exits successfully with malformed output is
\* transient: get_guest_ip neither fails nor returns on it, it goes on to
\* the next attempt (while attempts are left).
C5_MalformedIsTransient ==
    (op \in {"get_guest_ip", "start"}
        /\ ~IsNone(lastOut)
        /\ Malformed(Val(lastOut))
        /\ Last(log) = <<"domifaddr", "ok">>
        /\ AddrQueries < 10)
    => pc = "gi_query"

\* --------------------------------------------------------------------- C6
\* C6: a call of _install with a non-empty hardware requirement fails before
\* any external invocation: while such a call is inside _install nothing
\* has been invoked, and it ends with an error and an empty log.
C6_HardwareRejectedFirst ==
    ~IsNone(hardware) =>
        \/ pc = "install" /\ log = <<>>
        \/ pc = "done" /\ op = "_install" /\ err # "none" /\ log = <<>>

\* --------------------------------------------------------------------- C7
\* C7: reboot without a command, on a handle on which start was never
\* called, fails with ProvisionError and has invoked nothing.
C7_RebootNoInstance ==
    (op = "reboot" /\ pc = "done" /\ instance_name = NoName
        /\ Count(log, "super.reboot") = 0)
    => err = "ProvisionError" /\ log = <<>>

\* --------------------------------------------------------------------- C8
\* C8: is_ready returns true only after the resolver has returned a
\* non-empty address and the reconnect probe has succeeded; and the
\* handle's address is never set to an empty value.
C8_NotReadyEarly ==
    /\ (op = "is_ready" /\ pc = "done" /\ err = "none" /\ Val(ret) = TRUE) =>
          reachable /\ ~IsNone(guest) /\ Val(guest) # <<>>
    /\ ~IsNone(guest) => Val(guest) # <<>>

\* --------------------------------------------------------------------- C9
\* start is over, normally, on the path of the scenario: the domain did not
\* exist, the state query after the install reported "shut off", and the
\* first address query printed the table of one lease.
EndToEnd(a, p) ==
    /\ op = "start" /\ pc = "done" /\ err = "none"
    /\ log # <<>> /\ log[1] = <<"domstate", "failed">>
    /\ Has(log, <<"domstate", "shut off">>)
    /\ AddrQueries = 1
    /\ lastOut = Some(Table(a, p))

\* C9: on that path start has invoked the installer once and the hypervisor
\* start command once, in that order and before the address query and the
\* probe; the handle's address is the lease's address without its prefix,
\* its port is 22, and is_ready is true while the domain is running.
C9_EndToEnd ==
    \A a \in Addrs, p \in Prefixes :
        EndToEnd(a, p) =>
            /\ Count(log, "virt-install") = 1
            /\ Count(log, "start") = 1
            /\ Effects(log) = << <<"virt-install", "ok">>, <<"start", "ok">> >>
            /\ SubSeq(log, Len(log) - 3, Len(log)) =
                  << <<"domstate", "shut off">>, <<"start", "ok">>,
                     <<"domifaddr", "ok">>, <<"reconnect", "ok">> >>
            /\ guest = Some(a)
            /\ port = Some(22)
            /\ reachable
            /\ dom = "running" => IsReadyValue(dom, guest)

C9_Witness ==
    \E a \in Addrs, p \in Prefixes : EndToEnd(a, p) /\ dom = "running"

\* -------------------------------------------------------------------- C10
\* A remove is over, normally, that followed a normal stop and whose first
\* state query reported "running".
RemoveAfterStop ==
    /\ RemoveOver /\ err = "none"
    /\ prev.op = "stop" /\ prev.ok
    /\ log[1] = <<"domstate", "running">>

\* C10: a stop that returns has run the generic stop sequence and then the
\* shutdown command, once each; a remove that follows it on a domain
\* reported running has issued destroy and then undefine, once each.
C10_StopThenRemove ==
    /\ (op = "stop" /\ pc = "done" /\ err = "none") =>
          log = << <<"super.stop", "ok">>, <<"shutdown", "ok">> >>
    /\ RemoveAfterStop =>
          Effects(log) = << <<"destroy", "ok">>, <<"undefine", "ok">> >>

C10_Witness == RemoveAfterStop

\* -------------------------------------------------------------------- C11
\* The handle is idle after a start that failed although its installer
\* invocation had succeeded, and the domain of that start's identity is
\* still defined.
LeftBehind ==
    /\ pc = "idle"
    /\ prev.op = "start" /\ ~prev.ok /\ prev.installed
    /\ dom # "absent"
\* The step by which the next start begins and reaches its install step.
NextStartBegins == LeftBehind /\ op' = "start" /\ pc' = "install"
\* The install step of a start, run while the domain of the handle's
\* identity is defined: its state query succeeds and _install returns at
\* once; and a start whose first query succeeded has not invoked the
\* installer.
InstallStepDetects ==
    /\ (op = "start" /\ pc = "install" /\ pc' # "install" /\ dom # "absent") =>
          pc' = "st_state" /\ log' = << <<"domstate", dom>> >>
    /\ (op = "start" /\ DomainReported) => Count(log, "virt-install") = 0

StartBegins == pc = "idle" /\ op' = "start"

C13_OnlyProvisionError ==
    (op = "start" /\ pc = "done" /\ err # "none") => err = "ProvisionError"

\* -------------------------------------------------------------------- C14
\* The installer invocation of this start call has failed.
InstallerFailed == op = "start" /\ Has(log, <<"virt-install", "failed">>)

\* C14: once the installer invocation of a start call has failed, the call
\* is over with ProvisionError, the failed invocation is its only installer
\* invocation and its last external invocation (no hypervisor start
\* command, address query or reconnect probe), and no step of a start call
\* that has had no successful address query changes the handle's address
\* or port.
C14_InstallFailureAborts ==
    [][/\ InstallerFailed =>
             /\ pc = "done" /\ err = "ProvisionError"
             /\ Last(log) = <<"virt-install", "failed">>
             /\ Count(log, "virt-install") = 1
             /\ Count(log, "start") = 0
             /\ Count(log, "domifaddr") = 0
             /\ Count(log, "reconnect") = 0
       /\ (op' = "start" /\ ~Has(log', <<"domifaddr", "ok">>)) =>
             guest' = guest /\ port' = port]_vars

C14_Witness == InstallerFailed /\ pc = "done" /\ IsNone(guest) /\ IsNone(port)

\* -------------------------------------------------------------------- C15
\* The state queries of a start call after the one of its install step.
QueriesAfterInstall == {k \in 2..Len(log) : log[k][1] = "domstate"}
StartCommands == {k \in 1..Len(log) : log[k][1] = "start"}

\* C15: in a start call every hypervisor start command comes right after a
\* state query that succeeded and reported a state other than "running";
\* when the state query after install reported "running" the call issues
\* no start command; and a call issues at most one start command.
C15_StartOnlyIfNotRunning ==
    op = "start" =>
        /\ \A k \in StartCommands :
              /\ k - 1 \in QueriesAfterInstall
              /\ log[k - 1][2] \notin {"running", "failed"}
        /\ (\E k \in QueriesAfterInstall : log[k][2] = "running") =>
              StartCommands = {}
        /\ Cardinality(StartCommands) <= 1
        /\ Cardinality(QueriesAfterInstall) <= 1

\* A start call that found the domain running is over, normally.
C15_Witness ==
    /\ op = "start" /\ pc = "done" /\ err = "none"
    /\ \E k \in QueriesAfterInstall : log[k][2] = "running"

\* -------------------------------------------------------------------- C16
\* The first state query of this remove call reported a state.
FirstReported == op = "remove" /\ log # <<>> /\ log[1][2] # "failed"
Polls == {k \in 1..Len(log) : log[k][1] = "poll"}

\* C16: a remove call makes at most 23 external invocations, 10 polls and
\* 10 sleeps among them; it issues destroy, once and right after the first
\* state query, exactly when that query reported a state other than
\* "shut off"; a poll that reports "shut off" is the last poll and is
\* followed by undefine only; and when the first query reported "shut off"
\* the only invocation that follows is undefine.
C16_RemoveBounded ==
    op = "remove" =>
        /\ Len(log) <= 23
        /\ Cardinality(Polls) <= 10
        /\ slept <= 10
        /\ i <= 10 /\ (pc = "rm_poll" => i < 10)
        /\ Count(log, "destroy") <= 1
        /\ Count(log, "destroy") = 1 =>
              FirstReported /\ log[1][2] # "shut off" /\ log[2][1] = "destroy"
        /\ (FirstReported /\ log[1][2] # "shut off") =>
              \/ pc = "rm_destroy" /\ Len(log) = 1
              \/ Len(log) >= 2 /\ log[2][1] = "destroy"
        /\ \A k \in Polls :
              log[k][2] = "shut off" =>
                  /\ \A j \in Polls : j <= k
                  /\ IF k = Len(log) THEN pc = "rm_undefine"
                     ELSE k + 1 = Len(log) /\ log[k + 1][1] = "undefine"
        /\ (FirstReported /\ log[1][2] = "shut off") =>
              IF Len(log) = 1 THEN pc = "rm_undefine"
              ELSE Len(log) = 2 /\ log[2][1] = "undefine" /\ pc = "done"

\* A remove call is over whose polls saw the domain active and then shut
\* off.
C16_Witness ==
    /\ RemoveOver /\ err = "none"
    /\ Has(log, <<"poll", "active">>)
    /\ Has(log, <<"poll", "shut off">>)

\* -------------------------------------------------------------------- C17
\* An is_ready call is over.  The domain does not change between the end of
\* a call and its return, so `dom` is the state at the time of the call.
IsReadyOver == op = "is_ready" /\ pc = "done"

\* C17: an is_ready call queries the state once, itself, and the query
\* reports the state the domain has during that call; it returns true
\* exactly when that state is "running" and the generic predicate, which it
\* then evaluates, reports ready; on any other state it returns false
\* without evaluating the generic predicate; and when the domain is not
\* defined it fails and returns nothing.
C17_ReadyIsConjunction ==
    IsReadyOver =>
        /\ Count(log, "domstate") <= 1
        /\ dom = "absent" => err # "none" /\ IsNone(ret)
        /\ dom # "absent" =>
              /\ err = "none"
              /\ log[1] = <<"domstate", dom>>
              /\ Val(ret) = (dom = "running" /\ SuperIsReady(guest))
              /\ IF dom = "running"
                 THEN log = << log[1], <<"super.is_ready", Res(SuperIsReady(guest))>> >>
                 ELSE Len(log) = 1 /\ Val(ret) = FALSE

\* is_ready has returned false on a domain that is not running although the
\* handle has an address, which is all the generic predicate asks for.
C17_Witness ==
    /\ IsReadyOver /\ err = "none"
    /\ dom = "paused" /\ SuperIsReady(guest)
    /\ Val(ret) = FALSE

\* -------------------------------------------------------------------- C18
Generations(l) == Count(l, "ssh-keygen")
Derivations(l) == Count(l, "ssh-keygen -y")
\* A read of ssh_pubkey has returned.
PubkeyReturned == op = "ssh_pubkey" /\ pc = "done" /\ err = "none"

\* C18: key-pair generation is invoked only by a step that finds the handle
\* without a key and gives it one, and a key the handle has is never
\* changed, so over any sequence of accesses generation is invoked at most
\* once; no call generates or derives more than once, and every read of
\* ssh_pubkey that returns has invoked the derivation exactly once, as its
\* last invocation.
C18_GenerateOnceDeriveEach ==
    [][/\ Generations(log') > Generations(log) => key = <<>> /\ key' # <<>>
       /\ key # <<>> => key' = key
       /\ Generations(log) <= 1
       /\ Derivations(log) <= 1
       /\ PubkeyReturned =>
             /\ Derivations(log) = 1
             /\ Last(log)[1] = "ssh-keygen -y"
             /\ key # <<>>]_vars

\* A read of ssh_pubkey on a handle that had its key: derivation only.
C18_Witness ==
    /\ PubkeyReturned
    /\ Generations(log) = 0
    /\ Derivations(log) = 1

\* -------------------------------------------------------------------- C19
\* The step by which a remove call begins: its initial state query.
RemoveBegins == pc = "idle" /\ op' = "remove"

\* C19: a remove call that begins while the domain is not defined is over
\* with a failure after its initial state query, having issued neither
\* destroy nor undefine; and a remove that returns normally leaves the
\* domain undefined, so that a remove which follows it, the domain not
\* having been defined again, fails in that way.
C19_RemoveUndefinedFails ==
    [][/\ (RemoveBegins /\ dom = "absent") =>
             /\ pc' = "done" /\ err' # "none"
             /\ Len(log') <= 1
             /\ Count(log', "destroy") = 0
             /\ Count(log', "undefine") = 0
       /\ (RemoveOver /\ err = "none") => dom = "absent"]_vars

\* A remove that follows a successful remove has failed at its state query.
C19_Witness ==
    /\ RemoveOver /\ prev.op = "remove" /\ prev.ok
    /\ log = << <<"domstate", "failed">> >>
    /\ err = "CalledProcessError"

\* -------------------------------------------------------------------- C20
\* A step of the start call itself (not a change made by the hypervisor).
StartStep == op = "start" /\ (pc' # pc \/ log' # log)

\* C20: a start call issues no shutdown, destroy or undefine (nor the
\* generic stop); a step of it changes the domain only by a successful
\* installer invocation or a successful start command; the step by which it
\* fails, and its return, leave the domain, the address and the port as
\* they are; and no step of it unsets an address or port the handle has.
C20_StartLeavesDomain ==
    [][/\ op = "start" =>
             /\ Count(log, "shutdown") = 0
             /\ Count(log, "destroy") = 0
             /\ Count(log, "undefine") = 0
             /\ Count(log, "super.stop") = 0
       /\ (StartStep /\ dom' # dom) =>
             \/ dom = "absent" /\ dom' = "shut off"
                  /\ Last(log') = <<"virt-install", "ok">>
             \/ dom' = "running" /\ Last(log') = <<"start", "ok">>
       /\ (StartStep /\ pc' = "done" /\ err' # "none") =>
             dom' = dom /\ guest' = guest /\ port' = port
       /\ (StartStep /\ pc = "done") =>
             dom' = dom /\ guest' = guest /\ port' = port
       /\ (StartStep /\ ~IsNone(guest)) => ~IsNone(guest')
       /\ (StartStep /\ ~IsNone(port)) => ~IsNone(port')]_vars

\* A start call has failed at the reconnect probe: the domain is running
\* and the handle has the address and the port.
C20_Witness ==
    /\ op = "start" /\ pc = "done" /\ err = "ProvisionError"
    /\ Last(log) = <<"reconnect", "failed">>
    /\ dom = "running"
    /\ ~IsNone(guest) /\ port = Some(SshPort)

====
